---- MODULE Spec2Model ----
(***************************************************************************)
(* buurt-check: the host view (App.handleAddressSelect and its request     *)
(* sequence number), the 3D viewer component (NeighborhoodViewer3D: its    *)
(* effects, the one-shot sunlight Analyzer and the snapshot Capturer) and  *)
(* the sunlight risk card.                                                 *)
(*                                                                         *)
(* Lengths and scene coordinates are in tenths of a scene unit, and the    *)
(* light intensity in tenths, so that 0.1 and 0.8 are integers.            *)
(* An optional value (null | x) is the sequence <<>> or <<x>>.             *)
(***************************************************************************)
EXTENDS Integers, Sequences, FiniteSets, TLC

VARIABLES
  app,                      \* the useState cells of App
  neighborhood3DRequestId,  \* App's useRef request sequence number
  reqs,                     \* the handleAddressSelect invocations in flight
  viewer,                   \* the NeighborhoodViewer3D instance (props, state, refs, scene)
  obs,                      \* observer: callback invocations counted per arrival
  last,                     \* observer: the step taken last
  card,                     \* the props SunlightRiskCard was rendered with
  cardView,                 \* what SunlightRiskCard rendered
  fetch,                    \* one run of the backend geometry fetch coordinator
  search                    \* the AddressSearch component (state, refs, request in flight)

vars == <<app, neighborhood3DRequestId, reqs, viewer, obs, last, card, cardView, fetch, search>>

None == <<>>
Some(x) == <<x>>

Abs(n) == IF n < 0 THEN -n ELSE n
Max2(a, b) == IF a >= b THEN a ELSE b
SetMax(S) == CHOOSE x \in S : \A y \in S : y <= x
SetMin(S) == CHOOSE x \in S : \A y \in S : x <= y
Range(s) == {s[i] : i \in 1..Len(s)}

(***************************************************************************)
(* Bounds of the model.                                                    *)
(***************************************************************************)
MaxRequests == 2      \* address selections in one behaviour
MaxCalls == 2         \* the per-arrival callback counters saturate here
MaxHours == 6         \* largest sunlit-hour count of a SunlightResult

(***************************************************************************)
(* Program constants (NeighborhoodViewer3D).                               *)
(***************************************************************************)
SUN_DISTANCE == 300
SUN_ON == 8                  \* intensity 0.8
CAMERA_PRESETS ==
  [street |-> <<150, 80, 150>>, balcony |-> <<120, 150, 120>>, topDown |-> <<0, 500, 1>>]
INITIAL_CAMERA == <<1000, 1200, 1000>>
SNAPSHOT_CAMERA == <<0, 2000, 1>>
snapshotConfigs ==
  << [hour |-> 9, label |-> "morning"],
     [hour |-> 12, label |-> "noon"],
     [hour |-> 17, label |-> "evening"] >>

(***************************************************************************)
(* Building massing records (types/api BuildingBlock) used as inputs.      *)
(* Heights and footprints are chosen so that the centroid and the framing  *)
(* divisions of the viewer are exact.                                      *)
(***************************************************************************)
NoPand == ""
BuildingT1 ==
  [pand_id |-> "T1", ground_height |-> 20, building_height |-> 100,
   footprint |-> << <<0, 0>>, <<40, 0>>, <<40, 40>>, <<0, 40>> >>]
BuildingT2 ==
  [pand_id |-> "T2", ground_height |-> 10, building_height |-> 200,
   footprint |-> << <<-100, 0>>, <<-20, 0>>, <<-20, 40>>, <<-100, 40>> >>]
BuildingN1 ==
  [pand_id |-> "N1", ground_height |-> 10, building_height |-> 120,
   footprint |-> << <<100, 0>>, <<140, 0>>, <<140, 40>>, <<100, 40>> >>]

\* A tall neighbor to the east and a lower one to the west of T1.
BuildingE1 ==
  [pand_id |-> "E1", ground_height |-> 20, building_height |-> 300,
   footprint |-> << <<100, -40>>, <<140, -40>>, <<140, 40>>, <<100, 40>> >>]
BuildingW1 ==
  [pand_id |-> "W1", ground_height |-> 20, building_height |-> 130,
   footprint |-> << <<-140, -40>>, <<-100, -40>>, <<-100, 40>>, <<-140, 40>> >>]

Centers == {"c1", "c2"}
SliderHours == {12, 17}
\* The date presets exercised (ShadowControls offers winter, summer, equinox, today).
DatePresetChoices == {"winter", "summer"}

(***************************************************************************)
(* SunCalc.getPosition, tabulated: the altitude is the date's culmination, *)
(* lowered by the latitude of the center and by the distance from noon;    *)
(* center c2 lies so far north that the sun stays at or below the horizon  *)
(* on the winter solstice.                                                 *)
(***************************************************************************)
Culmination(date) ==
  CASE date = "Dec21" -> 4
    [] date = "Jun21" -> 9
    [] date = "Mar20" -> 6
    [] OTHER -> 5
LatitudeShift(center) == IF center = "c2" THEN -4 ELSE 0
SunCalcGetPosition(date, hour, center) ==
  [azimuth |-> hour - 12,
   altitude |-> Culmination(date) + LatitudeShift(center) - Abs(hour - 12)]

getDateFromPreset(preset) ==
  CASE preset = "winter" -> "Dec21"
    [] preset = "summer" -> "Jun21"
    [] preset = "equinox" -> "Mar20"
    [] OTHER -> "Today"

\* The light position computed from (azimuth, altitude) at SUN_DISTANCE,
\* kept in spherical form.
SunVector(sunPos) ==
  [az |-> sunPos.azimuth, alt |-> sunPos.altitude, dist |-> SUN_DISTANCE]
\* three.js places a new DirectionalLight at (0, 1, 0).
DefaultLightPosition == [az |-> 0, alt |-> 90, dist |-> 1]

(***************************************************************************)
(* SunCalc as the Analyzer uses it: getTimes for the 21st of a month        *)
(* (month 0..11) and getPosition at h:30.  Times are in quarter-hours of    *)
(* local time; the sun is up for HalfDay quarter-hours on either side of    *)
(* solar noon (12:00), and the altitude is the distance to the nearer of    *)
(* sunrise and sunset, so that at whole hours of the solstice dates it is   *)
(* four times the altitude of SunCalcGetPosition.                           *)
(***************************************************************************)
MonthlyHalfDay == <<19, 21, 24, 29, 33, 36, 35, 31, 26, 22, 18, 16>>
HalfDay(month, center) == MonthlyHalfDay[month + 1] + 4 * LatitudeShift(center)

\* SunCalc.getTimes: sunrise and sunset, or invalid dates (None) when the sun
\* does not rise.
SunCalcGetTimes(month, center) ==
  IF HalfDay(month, center) <= 0 THEN None
  ELSE Some([sunrise |-> 48 - HalfDay(month, center),
             sunset |-> 48 + HalfDay(month, center)])

\* Date.prototype.getHours of a time given in quarter-hours.
getHours(q) == q \div 4

\* SunCalc.getPosition at h:30 of the month's 21st.
SunCalcGetPositionAtHalfPast(month, h, center) ==
  [azimuth |-> (4 * h + 2) - 48,
   altitude |-> HalfDay(month, center) - Abs((4 * h + 2) - 48)]

(***************************************************************************)
(* NeighborhoodViewer3D: the component instance.                           *)
(***************************************************************************)
RECURSIVE SumSeq(_)
SumSeq(s) == IF s = <<>> THEN 0 ELSE Head(s) + SumSeq(Tail(s))

\* Array.prototype.find on pand_id: the first match, or None.
FindBuilding(buildings, pandId) ==
  LET idx == {i \in 1..Len(buildings) : buildings[i].pand_id = pandId}
  IN IF idx = {} THEN None ELSE Some(buildings[SetMin(idx)])

\* No instance: sceneRef.current is null and no hook state exists.
NoViewer ==
  [mounted |-> FALSE, buildings |-> <<>>, targetPandId |-> NoPand, center |-> "c1",
   hour |-> 12, datePreset |-> "summer",
   sunlightComputed |-> FALSE, snapshotsCaptured |-> FALSE,
   cameraSet |-> FALSE, lastFocusedPandId |-> NoPand, targetCenter |-> <<0, 0, 0>>,
   cameraPos |-> INITIAL_CAMERA, controlsTarget |-> <<0, 0, 0>>,
   sunPos |-> DefaultLightPosition, sunIntensity |-> SUN_ON,
   buildingMeshes |-> <<>>, timer |-> None,
   animId |-> 0, frameRequests |-> {},
   outSunlight |-> <<>>, outSnapshots |-> <<>>]

\* The hooks' initial values and the scene-initialisation effect of a new
\* instance rendered with the given props.  The effect stores the scene state
\* with animId 0 and calls animate once: the first frame is requested and its
\* id stored.  A frame request is live while the instance that made it has
\* its scene state.
InitScene(buildings, targetPandId, center) ==
  [NoViewer EXCEPT !.mounted = TRUE, !.buildings = buildings,
                   !.targetPandId = targetPandId, !.center = center,
                   !.animId = 1, !.frameRequests = {[id |-> 1, live |-> TRUE]}]

\* requestAnimationFrame hands out increasing ids.
NextFrameId(v) == 1 + SetMax({r.id : r \in v.frameRequests} \cup {v.animId})

\* The callbacks invoked during the step in progress start empty.
ClearOut(v) == [v EXCEPT !.outSunlight = <<>>, !.outSnapshots = <<>>]

BuildingsToRender(buildings, targetPandId) ==
  LET targetBuilding ==
        IF targetPandId # NoPand THEN FindBuilding(buildings, targetPandId) ELSE None
  IN IF targetBuilding # None THEN targetBuilding
     ELSE IF Len(buildings) = 0 THEN <<>> ELSE SubSeq(buildings, 1, 1)

\* The camera framing block of the buildings effect.
FrameCamera(v, focusBuilding, minGround) ==
  LET fp == focusBuilding.footprint
      xs == [i \in 1..Len(fp) |-> fp[i][1]]
      ys == [i \in 1..Len(fp) |-> fp[i][2]]
      cx == SumSeq(xs) \div Len(fp)
      cy == SumSeq(ys) \div Len(fp)
      maxSpan == Max2(SetMax(Range(xs)) - SetMin(Range(xs)),
                      SetMax(Range(ys)) - SetMin(Range(ys)))
      buildingHeight == focusBuilding.building_height
      targetY == focusBuilding.ground_height - minGround + (buildingHeight \div 2)
      distance == Max2(Max2((maxSpan * 3) \div 2, (buildingHeight * 6) \div 5), 150)
      cameraHeight == Max2(buildingHeight, 100)
  IN [v EXCEPT !.targetCenter = <<cx, targetY, cy>>,
               !.cameraPos = <<cx + distance, cameraHeight, cy + distance>>,
               !.controlsTarget = <<cx, targetY, cy>>,
               !.cameraSet = TRUE]

\* useEffect(..., [buildings, targetPandId]): replace the volumes, frame the
\* camera once per target, re-arm the two one-shot guards.
BuildingsEffect(v) ==
  IF ~v.mounted \/ Len(v.buildings) = 0 THEN v
  ELSE
    LET newTarget == v.targetPandId # NoPand /\ v.targetPandId # v.lastFocusedPandId
        v1 == [v EXCEPT !.cameraSet = IF newTarget THEN FALSE ELSE @,
                        !.lastFocusedPandId = IF newTarget THEN v.targetPandId ELSE @]
        buildingsToRender == BuildingsToRender(v.buildings, v.targetPandId)
        minGround == SetMin({buildingsToRender[i].ground_height :
                               i \in 1..Len(buildingsToRender)})
        meshes == SelectSeq(buildingsToRender, LAMBDA b : Len(b.footprint) >= 3)
        v2 == [v1 EXCEPT !.buildingMeshes = [i \in 1..Len(meshes) |-> meshes[i].pand_id]]
        v3 == IF ~v2.cameraSet /\ Len(buildingsToRender) > 0
              THEN FrameCamera(v2, buildingsToRender[1], minGround)
              ELSE v2
    IN [v3 EXCEPT !.sunlightComputed = FALSE, !.snapshotsCaptured = FALSE]

\* Variant of the sun effect: the light is switched off only below the horizon.
SunEffectBelowHorizonOnly(v) ==
  IF ~v.mounted THEN v
  ELSE
    LET sunPos == SunCalcGetPosition(getDateFromPreset(v.datePreset), v.hour, v.center)
    IN IF sunPos.altitude < 0
       THEN [v EXCEPT !.sunIntensity = 0]
       ELSE [v EXCEPT !.sunIntensity = SUN_ON, !.sunPos = SunVector(sunPos)]

\* useEffect(..., [hour, datePreset, center.lat, center.lng]).
SunEffect(v) ==
  IF ~v.mounted THEN v
  ELSE
    LET sunPos == SunCalcGetPosition(getDateFromPreset(v.datePreset), v.hour, v.center)
    IN IF sunPos.altitude <= 0
       THEN [v EXCEPT !.sunIntensity = 0]
       ELSE [v EXCEPT !.sunIntensity = SUN_ON, !.sunPos = SunVector(sunPos)]

\* useEffect(..., [buildings, targetPandId, computeSunlight]): the cleanup
\* clears the pending timer, then the effect arms a 100 ms timer holding the
\* computeSunlight closure of this render.
TriggerEffect(v) ==
  IF Len(v.buildings) > 0 /\ v.targetPandId # NoPand
  THEN [v EXCEPT !.timer = Some([buildings |-> v.buildings,
                                 targetPandId |-> v.targetPandId,
                                 center |-> v.center])]
  ELSE [v EXCEPT !.timer = None]

(***************************************************************************)
(* The Analyzer's sampling loop.  Scene coordinates: x is east, y is up,    *)
(* z is south; a footprint point (x, y) of a volume lies at (x, ., -y)      *)
(* after the volume's rotation by -90 degrees about the x axis.  The ray    *)
(* direction is reduced to the sector of the azimuth (east before solar     *)
(* noon, south at noon, west after it) and to the slope altitude / 16.      *)
(***************************************************************************)
RaySlopeDen == 16

\* The box a building's extruded volume occupies in the scene, resting on
\* ground_height - minGround.
MeshVolume(b, minGround) ==
  LET xs == {b.footprint[i][1] : i \in 1..Len(b.footprint)}
      ys == {b.footprint[i][2] : i \in 1..Len(b.footprint)}
  IN [pandId |-> b.pand_id,
      x1 |-> SetMin(xs), x2 |-> SetMax(xs),
      z1 |-> 0 - SetMax(ys), z2 |-> 0 - SetMin(ys),
      y1 |-> b.ground_height - minGround,
      y2 |-> b.ground_height - minGround + b.building_height]

\* roofCenter: (cx, targetTop + 0.5, cy), minGround taken over all buildings.
RoofCenter(buildings, target) ==
  LET fp == target.footprint
      cx == SumSeq([i \in 1..Len(fp) |-> fp[i][1]]) \div Len(fp)
      cy == SumSeq([i \in 1..Len(fp) |-> fp[i][2]]) \div Len(fp)
      minGround == SetMin({buildings[i].ground_height : i \in 1..Len(buildings)})
      targetTop == target.ground_height - minGround + target.building_height
  IN [x |-> cx, y |-> targetTop + 5, z |-> cy]

\* Raycaster.intersectObject for one volume: the ray from origin toward the
\* sun enters the box within the far bound.
RayHits(origin, sunPos, vol) ==
  LET east == sunPos.azimuth < 0
      west == sunPos.azimuth > 0
      inLane == IF east \/ west THEN vol.z1 <= origin.z /\ origin.z <= vol.z2
                ELSE vol.x1 <= origin.x /\ origin.x <= vol.x2
      tOut == IF east THEN vol.x2 - origin.x
              ELSE IF west THEN origin.x - vol.x1
              ELSE vol.z2 - origin.z
      tIn == Max2(0, IF east THEN vol.x1 - origin.x
                     ELSE IF west THEN origin.x - vol.x2
                     ELSE vol.z1 - origin.z)
  IN /\ inLane
     /\ tOut >= 0
     /\ tIn <= SUN_DISTANCE * 2 * 10
     /\ origin.y * RaySlopeDen + tIn * sunPos.altitude <= vol.y2 * RaySlopeDen
     /\ origin.y * RaySlopeDen + tOut * sunPos.altitude >= vol.y1 * RaySlopeDen

\* The volumes in ctx.buildingMeshes, as the buildings effect created them.
SceneVolumes(v) ==
  LET rendered == BuildingsToRender(v.buildings, v.targetPandId)
      minGround == SetMin({rendered[i].ground_height : i \in 1..Len(rendered)})
  IN [i \in 1..Len(v.buildingMeshes) |->
        MeshVolume(FindBuilding(v.buildings, v.buildingMeshes[i])[1], minGround)]

\* blocked: some intersected volume is not the target's.
Blocked(v, closure, origin, sunPos) ==
  \E i \in 1..Len(v.buildingMeshes) :
    /\ v.buildingMeshes[i] # closure.targetPandId
    /\ RayHits(origin, sunPos, SceneVolumes(v)[i])

\* Variant of the inner loop: every whole hour from h to the sunset hour is
\* counted, whatever the altitude of its sample.
SunlitHoursEveryGridHour(v, closure, origin, month, h, sunset) ==
  IF h > sunset THEN 0 ELSE sunset - h + 1

\* The inner loop from hour h to the sunset hour: the number of sunlit hours.
RECURSIVE SunlitHoursFrom(_, _, _, _, _, _)
SunlitHoursFrom(v, closure, origin, month, h, sunset) ==
  IF h > sunset THEN 0
  ELSE LET sunPos == SunCalcGetPositionAtHalfPast(month, h, closure.center)
           rest == SunlitHoursFrom(v, closure, origin, month, h + 1, sunset)
       IN IF sunPos.altitude <= 0 THEN rest
          ELSE IF ~Blocked(v, closure, origin, sunPos) THEN 1 + rest
          ELSE rest

\* monthlyHours: one count per month, January first.
MonthlyHours(v, closure) ==
  LET target == FindBuilding(closure.buildings, closure.targetPandId)[1]
      origin == RoofCenter(closure.buildings, target)
      hours(month) ==
        LET times == SunCalcGetTimes(month, closure.center)
        IN IF times = None THEN 0
           ELSE SunlitHoursFrom(v, closure, origin, month,
                                getHours(times[1].sunrise), getHours(times[1].sunset))
  IN <<hours(0), hours(1), hours(2), hours(3), hours(4), hours(5),
       hours(6), hours(7), hours(8), hours(9), hours(10), hours(11)>>

\* Variant of the aggregation: the mean truncated to one decimal.
SunlightAnalysisTruncated(v, closure) ==
  IF FindBuilding(closure.buildings, closure.targetPandId) = None
  THEN [winter |-> 0, equinox |-> 0, summer |-> 0, annualAverage |-> 0]
  ELSE LET monthlyHours == MonthlyHours(v, closure)
       IN [winter |-> monthlyHours[12],
           equinox |-> monthlyHours[3],
           summer |-> monthlyHours[6],
           annualAverage |-> (SumSeq(monthlyHours) * 10) \div 12]

\* The SunlightResult computeSunlight hands to onSunlightAnalysis
\* (annualAverage in tenths of an hour, Math.round of the mean times ten).
SunlightAnalysis(v, closure) ==
  IF FindBuilding(closure.buildings, closure.targetPandId) = None
  THEN [winter |-> 0, equinox |-> 0, summer |-> 0, annualAverage |-> 0]
  ELSE LET monthlyHours == MonthlyHours(v, closure)
       IN [winter |-> monthlyHours[12],
           equinox |-> monthlyHours[3],
           summer |-> monthlyHours[6],
           annualAverage |-> (SumSeq(monthlyHours) * 10 + 6) \div 12]

\* Variant of computeSunlight: without the sunlightComputed test.
computeSunlightUnguarded(v, closure, result) ==
  IF ~v.mounted \/ Len(closure.buildings) = 0 \/ closure.targetPandId = NoPand THEN v
  ELSE
    LET v1 == [v EXCEPT !.sunlightComputed = TRUE]
        target == FindBuilding(closure.buildings, closure.targetPandId)
    IN IF target = None THEN v1
       ELSE [v1 EXCEPT !.outSunlight = Append(@, result)]

\* computeSunlight: the closure of the render that armed the timer, and the
\* SunlightResult its sampling loop arrives at.
computeSunlight(v, closure, result) ==
  IF ~v.mounted \/ Len(closure.buildings) = 0 \/ closure.targetPandId = NoPand THEN v
  ELSE IF v.sunlightComputed THEN v
  ELSE
    LET v1 == [v EXCEPT !.sunlightComputed = TRUE]
        target == FindBuilding(closure.buildings, closure.targetPandId)
    IN IF target = None THEN v1
       ELSE [v1 EXCEPT !.outSunlight = Append(@, result)]

\* One pass of the capture loop: the light as set for one reference time.
CaptureRender(light, config, center) ==
  LET sunPos == SunCalcGetPosition("Dec21", config.hour, center)
  IN IF sunPos.altitude > 0
     THEN [pos |-> SunVector(sunPos), intensity |-> SUN_ON]
     ELSE [light EXCEPT !.intensity = 0]

\* The light after the first k passes of the capture loop.
RECURSIVE LightAfter(_, _, _)
LightAfter(light, k, center) ==
  IF k = 0 THEN light
  ELSE CaptureRender(LightAfter(light, k - 1, center), snapshotConfigs[k], center)

\* Variant of the restore step: the camera only.
RestoreCameraOnly(v, saved) == [v EXCEPT !.cameraPos = saved.cameraPos]

\* The restore step that ends a capture cycle.
RestoreAfterCapture(v, saved) ==
  [v EXCEPT !.cameraPos = saved.cameraPos,
            !.sunPos = saved.sunPos,
            !.sunIntensity = saved.sunIntensity]

\* Variant of the pose step: the camera stays where the user left it.
CapturePoseKept(v) == v

\* The pose step of a capture cycle: camera.position.set(0, 200, 0.1).
CapturePose(v) == [v EXCEPT !.cameraPos = SNAPSHOT_CAMERA]

\* useEffect(..., [buildings, onShadowSnapshots, center.lat, center.lng]): the
\* capture cycle.  A raster (dataUrl) is what the renderer drew: the camera
\* position and the light at the moment of the synchronous render.
SnapshotEffect(v) ==
  IF ~v.mounted \/ Len(v.buildings) = 0 \/ v.snapshotsCaptured THEN v
  ELSE
    LET saved == [cameraPos |-> v.cameraPos, sunPos |-> v.sunPos,
                  sunIntensity |-> v.sunIntensity]
        light0 == [pos |-> v.sunPos, intensity |-> v.sunIntensity]
        n == Len(snapshotConfigs)
        posed == CapturePose(v)
        snapshots ==
          [k \in 1..n |->
             [label |-> snapshotConfigs[k].label, hour |-> snapshotConfigs[k].hour,
              dataUrl |-> [cameraPos |-> posed.cameraPos,
                           sunPos |-> LightAfter(light0, k, v.center).pos,
                           sunIntensity |-> LightAfter(light0, k, v.center).intensity]]]
        v1 == [posed EXCEPT !.snapshotsCaptured = TRUE,
                        !.sunPos = LightAfter(light0, n, v.center).pos,
                        !.sunIntensity = LightAfter(light0, n, v.center).intensity]
        v2 == RestoreAfterCapture(v1, saved)
    IN [v2 EXCEPT !.outSnapshots = Append(@, [snapshots |-> snapshots, before |-> saved])]

\* Variant of the re-render: the sun effect does not depend on the center.
RerenderSunIgnoresCenter(v, changed) ==
  LET v1 == IF changed.buildings \/ changed.targetPandId THEN BuildingsEffect(v) ELSE v
      v2 == IF changed.sun THEN SunEffect(v1) ELSE v1
      v3 == IF changed.buildings \/ changed.targetPandId \/ changed.center
            THEN TriggerEffect(v2) ELSE v2
      v4 == IF changed.buildings \/ changed.center THEN SnapshotEffect(v3) ELSE v3
  IN v4

\* A re-render: the effects whose dependencies changed run in declaration
\* order.  buildings is compared by reference, the others by value.
Rerender(v, changed) ==
  LET v1 == IF changed.buildings \/ changed.targetPandId THEN BuildingsEffect(v) ELSE v
      v2 == IF changed.sun \/ changed.center THEN SunEffect(v1) ELSE v1
      v3 == IF changed.buildings \/ changed.targetPandId \/ changed.center
            THEN TriggerEffect(v2) ELSE v2
      v4 == IF changed.buildings \/ changed.center THEN SnapshotEffect(v3) ELSE v3
  IN v4

AllChanged == [buildings |-> TRUE, targetPandId |-> TRUE, center |-> TRUE, sun |-> TRUE]
SunChanged == [buildings |-> FALSE, targetPandId |-> FALSE, center |-> FALSE, sun |-> TRUE]

\* First render of a new instance: every effect runs.
MountViewer(buildings, targetPandId, center) ==
  Rerender(InitScene(buildings, targetPandId, center), AllChanged)

\* The per-frame tick run for the frame request f: the next frame is
\* requested first, the frame is drawn, and the id is stored in the scene
\* state last.  The tick of an instance whose scene state is cleared requests
\* the next frame and then fails on the store.
animate(v, f) ==
  LET id == NextFrameId(v)
      requested == (v.frameRequests \ {f}) \cup {[id |-> id, live |-> f.live]}
  IN IF f.live
     THEN [ClearOut(v) EXCEPT !.frameRequests = requested, !.animId = id]
     ELSE [ClearOut(v) EXCEPT !.frameRequests = requested]

\* The requests of a torn-down instance that were not cancelled.
Orphaned(requests) == {[r EXCEPT !.live = FALSE] : r \in requests}

\* Variant of the teardown that cancels no frame request.
UnmountViewerKeepsFrame(v) ==
  [NoViewer EXCEPT !.frameRequests = Orphaned(v.frameRequests)]

\* Teardown: the timer cleanup (clearTimeout) and the scene cleanup
\* (cancelAnimationFrame(animId), dispose, sceneRef.current = null); the
\* instance is gone.
UnmountViewer(v) ==
  [NoViewer EXCEPT
     !.frameRequests = Orphaned({r \in v.frameRequests : r.id # v.animId})]

\* The instance re-rendered with new props.
SetProps(v, newArray, buildings, targetPandId, center) ==
  Rerender([ClearOut(v) EXCEPT !.buildings = buildings,
                               !.targetPandId = targetPandId, !.center = center],
           [buildings |-> newArray, targetPandId |-> targetPandId # v.targetPandId,
            center |-> center # v.center, sun |-> FALSE])

\* ShadowControls onHourChange / onDatePresetChange.
setHour(v, h) ==
  IF h = v.hour THEN ClearOut(v) ELSE Rerender([ClearOut(v) EXCEPT !.hour = h], SunChanged)
setDatePreset(v, p) ==
  IF p = v.datePreset THEN ClearOut(v)
  ELSE Rerender([ClearOut(v) EXCEPT !.datePreset = p], SunChanged)

\* setCameraPreset: relative to targetCenterRef; an unknown preset is ignored.
setCameraPreset(v, preset) ==
  IF ~v.mounted \/ preset \notin DOMAIN CAMERA_PRESETS THEN ClearOut(v)
  ELSE
    LET offset == CAMERA_PRESETS[preset]
        tc == v.targetCenter
    IN [ClearOut(v) EXCEPT
          !.cameraPos = <<tc[1] + offset[1], tc[2] + offset[2], tc[3] + offset[3]>>,
          !.controlsTarget = tc]

\* The 100 ms timer fires.
TimerFires(v, result) ==
  [computeSunlight(ClearOut(v), v.timer[1], result) EXCEPT !.timer = None]

(***************************************************************************)
(* Inputs and initial values shared by the specifications.                 *)
(***************************************************************************)
BuildingSets == { <<BuildingT1, BuildingN1>>, <<BuildingN1>> }
TargetIds == {NoPand, "T1"}
CameraButtons == {"topDown", "street"}

InitialApp ==
  [address |-> None, buildingResponse |-> None,
   neighborhood3D |-> None, neighborhood3DLoading |-> FALSE,
   riskCards |-> None, riskLoading |-> FALSE, riskError |-> FALSE,
   sunlight |-> None, sunlightUnavailable |-> FALSE,
   shadowSnapshots |-> None, loading |-> FALSE, error |-> None]

InitialObs ==
  [sunlightCalls |-> 0, snapshotCalls |-> 0, analysed |-> None, repeat |-> FALSE,
   analysis |-> None, arrivals |-> 0, undisposed |-> 0, lastTarget |-> NoPand,
   frame |-> None, clearedDeref |-> FALSE,
   suggestCalled |-> None, heldFor |-> 0, callsForValue |-> 0]
InitialCard == [sunlight |-> None, loading |-> FALSE, unavailable |-> FALSE]

Saturate(n) == IF n > MaxCalls THEN MaxCalls ELSE n

\* The observer after a viewer step: the Analyzer's calls are counted since the
\* last arrival of a (target, building-set) pair, the Capturer's since the last
\* arrival of a building-set array.
ObsAfter(o, v, arrivedBuildings, arrivedTarget) ==
  [o EXCEPT
     !.sunlightCalls =
        Saturate((IF arrivedBuildings \/ arrivedTarget THEN 0 ELSE @) + Len(v.outSunlight)),
     !.snapshotCalls =
        Saturate((IF arrivedBuildings THEN 0 ELSE @) + Len(v.outSnapshots))]

\* The host's observer also remembers the (target, building set) pair the
\* Analyzer last delivered a result for, and whether the pair of the arrival
\* in progress equals it.
Pair(v) == [targetPandId |-> v.targetPandId, buildings |-> v.buildings]
HostObsAfter(o, v, arrived) ==
  LET o1 == ObsAfter(o, v, arrived, arrived)
      o2 == IF arrived THEN [o1 EXCEPT !.repeat = (o.analysed = Some(Pair(v)))] ELSE o1
  IN IF v.outSunlight # <<>> THEN [o2 EXCEPT !.analysed = Some(Pair(v))] ELSE o2

HostIdle ==
  /\ app = InitialApp
  /\ neighborhood3DRequestId = 0
  /\ reqs = <<>>

FetchIdle == fetch = [phase |-> "idle"]

\* AddressSearch as first rendered: useState / useRef initial values.
InitialSearch ==
  [query |-> "", suggestions |-> <<>>, isOpen |-> FALSE, error |-> FALSE,
   debounce |-> None, inflight |-> None]
SearchIdle == search = InitialSearch

CardIdle ==
  /\ card = InitialCard
  /\ cardView = "none"

(***************************************************************************)
(* ViewerSpec: the viewer component driven by its parent (mount, new       *)
(* props, teardown), by the user (hour, date preset, camera buttons) and   *)
(* by the 100 ms timer.                                                    *)
(***************************************************************************)
ViewerInit ==
  /\ HostIdle
  /\ CardIdle
  /\ FetchIdle
  /\ SearchIdle
  /\ viewer = NoViewer
  /\ obs = InitialObs
  /\ last = [kind |-> "init", req |-> 0]

ViewerFrame == UNCHANGED <<app, neighborhood3DRequestId, reqs, last, card, cardView, fetch, search>>

VMount ==
  /\ ~viewer.mounted
  /\ \E b \in BuildingSets, t \in TargetIds, c \in Centers :
       viewer' = MountViewer(b, t, c)
  /\ obs' = ObsAfter(InitialObs, viewer', TRUE, TRUE)
  /\ ViewerFrame

VUnmount ==
  /\ viewer.mounted
  /\ viewer' = UnmountViewer(viewer)
  /\ obs' = InitialObs
  /\ ViewerFrame

VSetProps ==
  /\ viewer.mounted
  /\ \E newArray \in BOOLEAN, b \in BuildingSets, t \in TargetIds, c \in Centers :
       /\ newArray \/ b = viewer.buildings
       /\ newArray \/ t # viewer.targetPandId \/ c # viewer.center
       /\ viewer' = SetProps(viewer, newArray, b, t, c)
       /\ obs' = ObsAfter(obs, viewer', newArray, t # viewer.targetPandId)
  /\ ViewerFrame

VHourChange ==
  /\ viewer.mounted
  /\ \E h \in SliderHours :
       /\ h # viewer.hour
       /\ viewer' = setHour(viewer, h)
  /\ obs' = ObsAfter(obs, viewer', FALSE, FALSE)
  /\ ViewerFrame

VDatePresetChange ==
  /\ viewer.mounted
  /\ \E p \in DatePresetChoices :
       /\ p # viewer.datePreset
       /\ viewer' = setDatePreset(viewer, p)
  /\ obs' = ObsAfter(obs, viewer', FALSE, FALSE)
  /\ ViewerFrame

VCameraPreset ==
  /\ viewer.mounted
  /\ \E p \in CameraButtons : viewer' = setCameraPreset(viewer, p)
  /\ obs' = ObsAfter(obs, viewer', FALSE, FALSE)
  /\ ViewerFrame

VTimerFires ==
  /\ viewer.timer # None
  /\ viewer' = TimerFires(viewer, SunlightAnalysis(viewer, viewer.timer[1]))
  /\ obs' = ObsAfter(obs, viewer', FALSE, FALSE)
  /\ ViewerFrame

ViewerNext ==
  \/ VMount
  \/ VUnmount
  \/ VSetProps
  \/ VHourChange
  \/ VDatePresetChange
  \/ VCameraPreset
  \/ VTimerFires

ViewerSpec == ViewerInit /\ [][ViewerNext]_vars

(***************************************************************************)
(* RenderLoopSpec: the viewer with its render loop.  Every handler, effect  *)
(* and frame callback runs to completion on the one JavaScript thread, so   *)
(* the tick is a step of its own between the other steps.  The observer     *)
(* keeps the frame the last tick drew, with the controls it was drawn       *)
(* under, and whether a tick found the scene state cleared.                 *)
(***************************************************************************)
MaxFrames == 3

\* renderer.render(scene, camera) of the tick: what the frame shows.
DrawnFrame(v) ==
  [cameraPos |-> v.cameraPos, sunPos |-> v.sunPos, sunIntensity |-> v.sunIntensity,
   datePreset |-> v.datePreset, hour |-> v.hour, center |-> v.center,
   afterCapture |-> v.snapshotsCaptured]

RlFrame == UNCHANGED <<app, neighborhood3DRequestId, reqs, card, cardView, fetch, search>>

\* A new instance; frame requests an earlier instance left pending stay.
RlMount ==
  /\ ~viewer.mounted
  /\ \E b \in BuildingSets, c \in Centers :
       viewer' = [MountViewer(b, "T1", c) EXCEPT
                    !.frameRequests = @ \cup viewer.frameRequests]
  /\ obs' = ObsAfter(obs, viewer', TRUE, TRUE)
  /\ last' = [kind |-> "mount", req |-> 0]
  /\ RlFrame

RlUnmount ==
  /\ viewer.mounted
  /\ viewer' = UnmountViewer(viewer)
  /\ obs' = [obs EXCEPT !.frame = None]
  /\ last' = [kind |-> "unmount", req |-> 0, animId |-> viewer.animId,
              timerPending |-> viewer.timer # None]
  /\ RlFrame

RlSetProps ==
  /\ viewer.mounted
  /\ \E b \in BuildingSets :
       viewer' = SetProps(viewer, TRUE, b, viewer.targetPandId, viewer.center)
  /\ obs' = ObsAfter(obs, viewer', TRUE, FALSE)
  /\ last' = [kind |-> "arrival", req |-> 0]
  /\ RlFrame

RlHourChange ==
  /\ viewer.mounted
  /\ \E h \in SliderHours :
       /\ h # viewer.hour
       /\ viewer' = setHour(viewer, h)
  /\ obs' = ObsAfter(obs, viewer', FALSE, FALSE)
  /\ last' = [kind |-> "hour", req |-> 0]
  /\ RlFrame

RlDatePresetChange ==
  /\ viewer.mounted
  /\ \E p \in DatePresetChoices :
       /\ p # viewer.datePreset
       /\ viewer' = setDatePreset(viewer, p)
  /\ obs' = ObsAfter(obs, viewer', FALSE, FALSE)
  /\ last' = [kind |-> "datePreset", req |-> 0]
  /\ RlFrame

RlCameraPreset ==
  /\ viewer.mounted
  /\ \E p \in CameraButtons : viewer' = setCameraPreset(viewer, p)
  /\ obs' = ObsAfter(obs, viewer', FALSE, FALSE)
  /\ last' = [kind |-> "cameraPreset", req |-> 0]
  /\ RlFrame

RlTimerFires ==
  /\ viewer.timer # None
  /\ viewer' = TimerFires(viewer, SunlightAnalysis(viewer, viewer.timer[1]))
  /\ obs' = ObsAfter(obs, viewer', FALSE, FALSE)
  /\ last' = [kind |-> "timer", req |-> 0, mounted |-> viewer.mounted]
  /\ RlFrame

\* The browser runs the callback of a pending frame request.
RlTick ==
  /\ NextFrameId(viewer) <= MaxFrames
  /\ \E f \in viewer.frameRequests :
       /\ viewer' = animate(viewer, f)
       /\ obs' = IF f.live
                 THEN [ObsAfter(obs, viewer', FALSE, FALSE) EXCEPT
                         !.frame = Some(DrawnFrame(viewer))]
                 ELSE [obs EXCEPT !.clearedDeref = TRUE]
  /\ last' = [kind |-> "tick", req |-> 0]
  /\ RlFrame

RenderLoopInit ==
  /\ HostIdle
  /\ CardIdle
  /\ FetchIdle
  /\ SearchIdle
  /\ viewer = NoViewer
  /\ obs = InitialObs
  /\ last = [kind |-> "init", req |-> 0]

RenderLoopNext ==
  \/ RlMount
  \/ RlUnmount
  \/ RlSetProps
  \/ RlHourChange
  \/ RlDatePresetChange
  \/ RlCameraPreset
  \/ RlTimerFires
  \/ RlTick

RenderLoopSpec == RenderLoopInit /\ [][RenderLoopNext]_vars

(***************************************************************************)
(* AnalyzerSpec: a viewer mounted with a target and its neighbors; the      *)
(* timer fires and computeSunlight runs its sampling loop.  The observer    *)
(* keeps the closure the loop ran with, its monthlyHours and the result     *)
(* handed to onSunlightAnalysis.                                            *)
(***************************************************************************)
AnalyzerSets ==
  { <<BuildingT1>>, <<BuildingT1, BuildingE1>>, <<BuildingT1, BuildingW1>>,
    <<BuildingE1, BuildingT1, BuildingW1>>, <<BuildingT1, BuildingN1>> }
AnalyzerTargets == {"T1", "E1"}

AnMount ==
  /\ ~viewer.mounted
  /\ \E b \in AnalyzerSets, t \in AnalyzerTargets, c \in Centers :
       viewer' = MountViewer(b, t, c)
  /\ obs' = ObsAfter(InitialObs, viewer', TRUE, TRUE)
  /\ ViewerFrame

AnTimerFires ==
  /\ viewer.timer # None
  /\ viewer' = TimerFires(viewer, SunlightAnalysis(viewer, viewer.timer[1]))
  /\ obs' = [ObsAfter(obs, viewer', FALSE, FALSE) EXCEPT
               !.analysis = IF viewer'.outSunlight = <<>> THEN @
                            ELSE Some([closure |-> viewer.timer[1],
                                       monthlyHours |-> MonthlyHours(viewer, viewer.timer[1]),
                                       result |-> viewer'.outSunlight[1]])]
  /\ ViewerFrame

AnalyzerNext ==
  \/ AnMount
  \/ AnTimerFires
  \/ VUnmount
  \/ VHourChange
  \/ VDatePresetChange

AnalyzerSpec == ViewerInit /\ [][AnalyzerNext]_vars

(***************************************************************************)
(* App: handleAddressSelect.  Every invocation captures requestId; its     *)
(* continuations run when the awaited call settles.  The operators below   *)
(* are the state updates of each continuation.                             *)
(***************************************************************************)
\* Variant of the reset: the 3D response of the previous address is kept.
handleAddressSelectKeeps3D(a) ==
  [a EXCEPT !.loading = TRUE, !.error = None, !.buildingResponse = None,
            !.neighborhood3DLoading = FALSE,
            !.riskCards = None, !.riskLoading = FALSE, !.riskError = FALSE,
            !.sunlight = None, !.sunlightUnavailable = FALSE,
            !.shadowSnapshots = None]

\* The synchronous head of handleAddressSelect (the ref is bumped by Select).
\* Variant of the reset that keeps the building facts.
handleAddressSelectKeepsFacts(a) ==
  [a EXCEPT !.loading = TRUE, !.error = None,
            !.neighborhood3D = None, !.neighborhood3DLoading = FALSE,
            !.riskCards = None, !.riskLoading = FALSE, !.riskError = FALSE,
            !.sunlight = None, !.sunlightUnavailable = FALSE,
            !.shadowSnapshots = None]

handleAddressSelect(a) ==
  [a EXCEPT !.loading = TRUE, !.error = None, !.buildingResponse = None,
            !.neighborhood3D = None, !.neighborhood3DLoading = FALSE,
            !.riskCards = None, !.riskLoading = FALSE, !.riskError = FALSE,
            !.sunlight = None, !.sunlightUnavailable = FALSE,
            !.shadowSnapshots = None]

\* What lookupAddress may resolve to: with an addressable-object id and
\* coordinates, with the id but no coordinates, or without the id.
ResolvedKinds == {"full", "noCoords", "noVbo"}
HasVbo(kind) == kind # "noVbo"
HasCoords(kind) == kind = "full"

\* After `await lookupAddress`.
lookupResolved(a, requestId, kind) ==
  LET a1 == [a EXCEPT !.address = Some([req |-> requestId, kind |-> kind])]
      a2 == IF HasVbo(kind) /\ HasCoords(kind) THEN [a1 EXCEPT !.riskLoading = TRUE] ELSE a1
  IN IF HasVbo(kind) THEN a2 ELSE [a2 EXCEPT !.loading = FALSE]

\* The outer catch: lookupAddress or getBuildingFacts rejected.
selectFailed(a) == [a EXCEPT !.error = Some("error.generic"), !.loading = FALSE]

\* After `await getBuildingFacts`; start3D tells whether the 3D fetch is fired.
factsResolved(a, requestId, hasPand, start3D) ==
  LET a1 == [a EXCEPT !.buildingResponse = Some([req |-> requestId, pand |-> hasPand]),
                      !.loading = FALSE]
  IN IF start3D THEN [a1 EXCEPT !.neighborhood3DLoading = TRUE]
     ELSE [a1 EXCEPT !.sunlightUnavailable = TRUE]

\* The continuations of the getRiskCards task.
riskResolved(a, current, requestId) ==
  IF current = requestId
  THEN [a EXCEPT !.riskCards = Some([req |-> requestId]), !.riskLoading = FALSE]
  ELSE a
riskRejected(a, current, requestId) ==
  IF current = requestId
  THEN [a EXCEPT !.riskError = TRUE, !.riskLoading = FALSE]
  ELSE a

\* Variants of the 3D continuations: without the sequence-number test, and
\* with the rejection handled like the outer catch.
neighborhood3DResolvedUnguarded(a, current, requestId, n3d) ==
  LET canCompute == Len(n3d.buildings) > 0 /\ n3d.target_pand_id # NoPand
  IN [a EXCEPT !.neighborhood3D = Some(n3d),
               !.neighborhood3DLoading = FALSE,
               !.sunlightUnavailable = ~canCompute]
neighborhood3DRejectedSurfaced(a, current, requestId) ==
  IF current = requestId
  THEN [a EXCEPT !.neighborhood3DLoading = FALSE, !.sunlightUnavailable = TRUE,
                 !.error = Some("error.generic")]
  ELSE a

\* The continuations of the getNeighborhood3D task.
neighborhood3DResolved(a, current, requestId, n3d) ==
  IF current = requestId
  THEN LET canCompute == Len(n3d.buildings) > 0 /\ n3d.target_pand_id # NoPand
       IN [a EXCEPT !.neighborhood3D = Some(n3d),
                    !.neighborhood3DLoading = FALSE,
                    !.sunlightUnavailable = ~canCompute]
  ELSE a
neighborhood3DRejected(a, current, requestId) ==
  IF current = requestId
  THEN [a EXCEPT !.neighborhood3DLoading = FALSE, !.sunlightUnavailable = TRUE]
  ELSE a

\* The Neighborhood3DResponse bodies request k may receive: the target and a
\* neighbor, no buildings, buildings without a target id, and a target id
\* whose building is not in the list.
Responses(k) ==
  { [req |-> k, target_pand_id |-> "T1", buildings |-> <<BuildingT1, BuildingN1>>,
     center |-> "c1"],
    [req |-> k, target_pand_id |-> NoPand, buildings |-> <<>>, center |-> "c1"],
    [req |-> k, target_pand_id |-> NoPand, buildings |-> <<BuildingN1>>, center |-> "c1"],
    [req |-> k, target_pand_id |-> "T1", buildings |-> <<BuildingN1>>, center |-> "c1"] }

\* {neighborhood3D && neighborhood3D.buildings.length > 0 && <viewer/>}.
ViewerShown(a) == a.neighborhood3D # None /\ Len(a.neighborhood3D[1].buildings) > 0

\* Variant of the render: a viewer that is already mounted is kept as it is
\* when a response with buildings arrives after a re-selection.
RenderViewerKeepsInstance(a, prev, v) ==
  IF ~ViewerShown(a) THEN [ClearOut(v) EXCEPT !.timer = None]
  ELSE LET n3d == a.neighborhood3D[1]
       IN IF ~v.mounted THEN MountViewer(n3d.buildings, n3d.target_pand_id, n3d.center)
          ELSE IF a.neighborhood3D = prev
                  \/ Pair(v) = [targetPandId |-> n3d.target_pand_id, buildings |-> n3d.buildings]
               THEN ClearOut(v)
          ELSE SetProps(v, TRUE, n3d.buildings, n3d.target_pand_id, n3d.center)

\* App's render of the viewer element: mounted exactly while neighborhood3D
\* holds a response with buildings; prev is the response of the last render.
RenderViewer(a, prev, v) ==
  IF ~ViewerShown(a) THEN (IF v.mounted THEN UnmountViewer(v) ELSE v)
  ELSE LET n3d == a.neighborhood3D[1]
       IN IF ~v.mounted THEN MountViewer(n3d.buildings, n3d.target_pand_id, n3d.center)
          ELSE IF a.neighborhood3D = prev THEN ClearOut(v)
          ELSE SetProps(v, TRUE, n3d.buildings, n3d.target_pand_id, n3d.center)

\* onSunlightAnalysis={setSunlight} onShadowSnapshots={setShadowSnapshots}.
DeliverToHost(a, v) ==
  [a EXCEPT !.sunlight = IF v.outSunlight # <<>>
                         THEN Some(v.outSunlight[Len(v.outSunlight)]) ELSE @,
            !.shadowSnapshots = IF v.outSnapshots # <<>>
                                THEN Some(v.outSnapshots[Len(v.outSnapshots)].snapshots)
                                ELSE @]

\* A host step: the state updates a1, the render they cause and the callbacks
\* the viewer's effects invoke during it.
HostStep(a1) ==
  /\ viewer' = RenderViewer(a1, app.neighborhood3D, viewer)
  /\ app' = DeliverToHost(a1, viewer')
  /\ obs' = IF ~viewer'.mounted
            THEN [obs EXCEPT !.sunlightCalls = 0, !.snapshotCalls = 0, !.repeat = FALSE]
            ELSE HostObsAfter(obs, viewer', a1.neighborhood3D # app.neighborhood3D)
  /\ UNCHANGED <<card, cardView, fetch, search>>

NewRequest == [main |-> "lookup", coords |-> FALSE, risk |-> "none", n3d |-> "none"]

Init ==
  /\ HostIdle
  /\ CardIdle
  /\ FetchIdle
  /\ SearchIdle
  /\ viewer = NoViewer
  /\ obs = InitialObs
  /\ last = [kind |-> "init", req |-> 0]

\* The user picks a suggestion.
Select ==
  /\ neighborhood3DRequestId < MaxRequests
  /\ neighborhood3DRequestId' = neighborhood3DRequestId + 1
  /\ reqs' = Append(reqs, NewRequest)
  /\ HostStep(handleAddressSelect(app))
  /\ last' = [kind |-> "select", req |-> neighborhood3DRequestId',
              timerPending |-> viewer.timer # None,
              hadResults |-> app.buildingResponse # None /\ app.sunlight # None]

LookupResolvesAt(k) ==
  /\ reqs[k].main = "lookup"
  /\ \E kind \in ResolvedKinds :
       /\ HostStep(lookupResolved(app, k, kind))
       /\ reqs' = [reqs EXCEPT ![k].main = IF HasVbo(kind) THEN "facts" ELSE "done",
                               ![k].coords = HasCoords(kind),
                               ![k].risk = IF HasVbo(kind) /\ HasCoords(kind)
                                           THEN "pending" ELSE "none"]
  /\ last' = [kind |-> "lookupResolved", req |-> k]
  /\ UNCHANGED neighborhood3DRequestId

LookupRejectsAt(k) ==
  /\ reqs[k].main = "lookup"
  /\ HostStep(selectFailed(app))
  /\ reqs' = [reqs EXCEPT ![k].main = "done"]
  /\ last' = [kind |-> "lookupRejected", req |-> k]
  /\ UNCHANGED neighborhood3DRequestId

FactsResolvesAt(k) ==
  /\ reqs[k].main = "facts"
  /\ \E hasPand \in BOOLEAN :
       LET start3D == hasPand /\ reqs[k].coords
       IN /\ HostStep(factsResolved(app, k, hasPand, start3D))
          /\ reqs' = [reqs EXCEPT ![k].main = "done",
                                  ![k].n3d = IF start3D THEN "pending" ELSE "none"]
  /\ last' = [kind |-> "factsResolved", req |-> k]
  /\ UNCHANGED neighborhood3DRequestId

FactsRejectsAt(k) ==
  /\ reqs[k].main = "facts"
  /\ HostStep(selectFailed(app))
  /\ reqs' = [reqs EXCEPT ![k].main = "done"]
  /\ last' = [kind |-> "factsRejected", req |-> k]
  /\ UNCHANGED neighborhood3DRequestId

RiskResolvesAt(k) ==
  /\ reqs[k].risk = "pending"
  /\ HostStep(riskResolved(app, neighborhood3DRequestId, k))
  /\ reqs' = [reqs EXCEPT ![k].risk = "done"]
  /\ last' = [kind |-> "riskResolved", req |-> k]
  /\ UNCHANGED neighborhood3DRequestId

RiskRejectsAt(k) ==
  /\ reqs[k].risk = "pending"
  /\ HostStep(riskRejected(app, neighborhood3DRequestId, k))
  /\ reqs' = [reqs EXCEPT ![k].risk = "done"]
  /\ last' = [kind |-> "riskRejected", req |-> k]
  /\ UNCHANGED neighborhood3DRequestId

Neighborhood3DResolvesAt(k) ==
  /\ reqs[k].n3d = "pending"
  /\ \E n3d \in Responses(k) :
       HostStep(neighborhood3DResolved(app, neighborhood3DRequestId, k, n3d))
  /\ reqs' = [reqs EXCEPT ![k].n3d = "done"]
  /\ last' = [kind |-> "n3dResolved", req |-> k]
  /\ UNCHANGED neighborhood3DRequestId

Neighborhood3DRejectsAt(k) ==
  /\ reqs[k].n3d = "pending"
  /\ HostStep(neighborhood3DRejected(app, neighborhood3DRequestId, k))
  /\ reqs' = [reqs EXCEPT ![k].n3d = "done"]
  /\ last' = [kind |-> "n3dRejected", req |-> k]
  /\ UNCHANGED neighborhood3DRequestId

\* The mounted viewer's 100 ms timer fires; setSunlight receives the result.
AnalysisTimerFires ==
  /\ viewer.timer # None
  /\ viewer' = TimerFires(viewer, SunlightAnalysis(viewer, viewer.timer[1]))
  /\ app' = DeliverToHost(app, viewer')
  /\ obs' = HostObsAfter(obs, viewer', FALSE)
  /\ last' = [kind |-> "timer", req |-> neighborhood3DRequestId]
  /\ UNCHANGED <<neighborhood3DRequestId, reqs, card, cardView, fetch, search>>

LookupResolves == \E k \in 1..Len(reqs) : LookupResolvesAt(k)
LookupRejects == \E k \in 1..Len(reqs) : LookupRejectsAt(k)
FactsResolves == \E k \in 1..Len(reqs) : FactsResolvesAt(k)
FactsRejects == \E k \in 1..Len(reqs) : FactsRejectsAt(k)
RiskResolves == \E k \in 1..Len(reqs) : RiskResolvesAt(k)
RiskRejects == \E k \in 1..Len(reqs) : RiskRejectsAt(k)
Neighborhood3DResolves == \E k \in 1..Len(reqs) : Neighborhood3DResolvesAt(k)
Neighborhood3DRejects == \E k \in 1..Len(reqs) : Neighborhood3DRejectsAt(k)

Next ==
  \/ Select
  \/ LookupResolves
  \/ LookupRejects
  \/ FactsResolves
  \/ FactsRejects
  \/ RiskResolves
  \/ RiskRejects
  \/ Neighborhood3DResolves
  \/ Neighborhood3DRejects
  \/ AnalysisTimerFires

Spec == Init /\ [][Next]_vars

(***************************************************************************)
(* SunlightRiskCard.                                                       *)
(***************************************************************************)
\* Variant of the classification: two hours still count as high risk.
getRiskLevelTwoIsHigh(winterHours) ==
  IF winterHours <= 2 THEN "high"
  ELSE IF winterHours <= 4 THEN "medium"
  ELSE "low"

getRiskLevel(winterHours) ==
  IF winterHours < 2 THEN "high"
  ELSE IF winterHours <= 4 THEN "medium"
  ELSE "low"

\* What the card renders for its props: the loading text, the unavailable
\* text, nothing, or the badge of the risk level.
SunlightRiskCard(props) ==
  IF props.loading THEN "loading"
  ELSE IF props.unavailable THEN "unavailable"
  ELSE IF props.sunlight = None THEN "none"
  ELSE getRiskLevel(props.sunlight[1].winter)

\* The props App passes to the card.
SunlightCardProps(a) ==
  LET canComputeSunlight ==
        /\ a.neighborhood3D # None
        /\ Len(a.neighborhood3D[1].buildings) > 0
        /\ a.neighborhood3D[1].target_pand_id # NoPand
  IN [sunlight |-> a.sunlight,
      loading |-> canComputeSunlight /\ a.sunlight = None,
      unavailable |-> a.sunlightUnavailable]

\* SunlightResult props the card is rendered with (annualAverage in tenths).
CardResults ==
  [winter : 0..MaxHours, equinox : {3, MaxHours}, summer : {5, MaxHours},
   annualAverage : {10, 10 * MaxHours}]

(***************************************************************************)
(* CardSpec: the card rendered with any props.                             *)
(***************************************************************************)
CardInit ==
  /\ HostIdle
  /\ CardIdle
  /\ FetchIdle
  /\ SearchIdle
  /\ viewer = NoViewer
  /\ obs = InitialObs
  /\ last = [kind |-> "init", req |-> 0]

RenderCard ==
  /\ \E sl \in {None} \cup {Some(r) : r \in CardResults}, ld \in BOOLEAN, un \in BOOLEAN :
       /\ card' = [sunlight |-> sl, loading |-> ld, unavailable |-> un]
       /\ cardView' = SunlightRiskCard(card')
  /\ UNCHANGED <<app, neighborhood3DRequestId, reqs, viewer, obs, last, fetch, search>>

CardNext == RenderCard

CardSpec == CardInit /\ [][CardNext]_vars

(***************************************************************************)
(* ArrivalSpec: the viewer over a sequence of massing arrivals.  The host   *)
(* mounts it with a building set, hands it further sets, and unmounts it    *)
(* when another address is selected; the user moves the camera in between.  *)
(* The observer counts the volumes created and not disposed.                *)
(***************************************************************************)
MaxArrivals == 3

BuildingF2 ==
  [pand_id |-> "F2", ground_height |-> 20, building_height |-> 60,
   footprint |-> <<<<60, 0>>, <<80, 0>>>>]

ArrivalSets ==
  { <<BuildingT1>>, <<BuildingT1, BuildingN1>>, <<BuildingN1>>,
    <<BuildingN1, BuildingT1, BuildingF2>> }
ArrivalTargets == {NoPand, "T1", "N1"}

\* The volumes the buildings effect removes and disposes when a set arrives.
DisposedByBuildingsEffect(v, buildings) ==
  IF ~v.mounted \/ Len(buildings) = 0 THEN 0 ELSE Len(v.buildingMeshes)

\* The volumes the buildings effect creates for a set.
CreatedByBuildingsEffect(buildings, targetPandId) ==
  IF Len(buildings) = 0 THEN 0
  ELSE Len(SelectSeq(BuildingsToRender(buildings, targetPandId),
                     LAMBDA b : Len(b.footprint) >= 3))

\* The volumes the teardown disposes: it disposes the controls and the
\* renderer, and drops the scene reference.
DisposedByTeardown(v) == 0

ArrivalObs(o, v, buildings, targetPandId) ==
  [o EXCEPT !.arrivals = @ + 1,
            !.undisposed = @ - DisposedByBuildingsEffect(v, buildings)
                             + CreatedByBuildingsEffect(buildings, targetPandId),
            !.lastTarget = IF targetPandId # NoPand THEN targetPandId ELSE @]

ArrivalFrame == UNCHANGED <<app, neighborhood3DRequestId, reqs, card, cardView, fetch, search>>

ArMount ==
  /\ ~viewer.mounted
  /\ obs.arrivals < MaxArrivals
  /\ \E b \in ArrivalSets, t \in ArrivalTargets :
       /\ viewer' = MountViewer(b, t, "c1")
       /\ obs' = ArrivalObs([obs EXCEPT !.lastTarget = NoPand], viewer, b, t)
  /\ last' = [kind |-> "mount", req |-> 0]
  /\ ArrivalFrame

ArSetProps ==
  /\ viewer.mounted
  /\ obs.arrivals < MaxArrivals
  /\ \E b \in ArrivalSets, t \in ArrivalTargets :
       /\ viewer' = SetProps(viewer, TRUE, b, t, viewer.center)
       /\ obs' = ArrivalObs(obs, viewer, b, t)
  /\ last' = [kind |-> "arrival", req |-> 0]
  /\ ArrivalFrame

ArUnmount ==
  /\ viewer.mounted
  /\ viewer' = UnmountViewer(viewer)
  /\ obs' = [obs EXCEPT !.undisposed = @ - DisposedByTeardown(viewer)]
  /\ last' = [kind |-> "unmount", req |-> 0]
  /\ ArrivalFrame

\* The presets setCameraPreset is called with: the buttons, and a name
\* CAMERA_PRESETS does not hold.
ArrivalPresets == CameraButtons \cup {"orbit"}

ArCameraPreset ==
  /\ viewer.mounted
  /\ \E p \in ArrivalPresets :
       /\ viewer' = setCameraPreset(viewer, p)
       /\ last' = [kind |-> "cameraPreset", req |-> 0, preset |-> p]
  /\ UNCHANGED obs
  /\ ArrivalFrame

ArrivalNext == ArMount \/ ArSetProps \/ ArUnmount \/ ArCameraPreset

ArrivalSpec == ViewerInit /\ [][ArrivalNext]_vars

(***************************************************************************)
(* FetchSpec: one run of the backend geometry fetch coordinator             *)
(* (get_neighborhood_3d): the direct lookup of the target and the           *)
(* paginated area query run as two independent tasks and are merged once    *)
(* both have settled.  The backend module is described by the design and    *)
(* by the plan documents only; times are counted in ticks.                  *)
(***************************************************************************)
TicksPerSecond == 2
MaxClock == 6
MaxPages == 3
NeighborCap == 3

OverallTimeouts == {4, 5}
PerPageTimeouts == {2, 5}

DirectRecord == [pand_id |-> "T1", from |-> "direct"]
AreaRecord(id) == [pand_id |-> id, from |-> "area"]

\* What one page of the area query can hold.
PageContents ==
  { <<>>, <<AreaRecord("N1")>>, <<AreaRecord("T1"), AreaRecord("N2")>> }

Min(a, b) == IF a <= b THEN a ELSE b

StartedFetch(overall, perPage, maxPages) ==
  [phase |-> "running", overall_timeout |-> overall, per_page_timeout |-> perPage,
   max_pages |-> maxPages, now |-> 0, target |-> "pending", loop |-> "head", page |-> 1,
   inflight |-> {}, buildings |-> <<>>, stop |-> "",
   completed |-> <<>>, requests |-> <<>>, response |-> None]

\* Variant of the time box: the per-page timeout alone.
PageTimeoutUncapped(f, remaining) == f.per_page_timeout

\* The time box of a page request.
PageTimeout(f, remaining) == Min(f.per_page_timeout, remaining)

\* The head of the pagination loop: stop after the last allowed page or when
\* less than a second of the budget remains, else issue the next request.
NextPage(f) ==
  LET remaining == f.overall_timeout - f.now
  IN IF f.page > f.max_pages THEN [f EXCEPT !.loop = "done", !.stop = "maxPages"]
     ELSE IF remaining < TicksPerSecond THEN [f EXCEPT !.loop = "done", !.stop = "budget"]
     ELSE LET request == [page |-> f.page, issued |-> f.now, remaining |-> remaining,
                          timeout |-> PageTimeout(f, remaining)]
          IN [f EXCEPT !.loop = "awaiting",
                       !.inflight = @ \cup {request},
                       !.requests = Append(@, request)]

\* A page arrives: its buildings are appended; the loop ends when the page
\* has no next link or the cap is reached.
PageSucceeded(f, request, content, hasNext) ==
  LET buildings == f.buildings \o content
  IN [f EXCEPT !.inflight = @ \ {request},
               !.buildings = buildings,
               !.completed = Append(@, content),
               !.page = @ + 1,
               !.loop = IF hasNext /\ Len(buildings) < NeighborCap THEN "head" ELSE "done",
               !.stop = IF ~hasNext THEN "lastPage"
                        ELSE IF Len(buildings) >= NeighborCap THEN "cap" ELSE @]

\* Variant of the failure branch: the accumulated buildings are dropped.
PageFailedReturnsEmpty(f, request) ==
  [f EXCEPT !.inflight = @ \ {request}, !.loop = "done", !.stop = "failed",
            !.buildings = <<>>]

\* A page times out or fails in transport: break, keeping what was gathered.
PageFailed(f, request) ==
  [f EXCEPT !.inflight = @ \ {request}, !.loop = "done", !.stop = "failed"]

\* Variant of the merge: the area records are appended as they came.
MergeKeepsAreaRecords(target, neighbors) ==
  IF target = "found" THEN <<DirectRecord>> \o neighbors ELSE <<>>

\* The merged building list: the direct record first, then the area records
\* of other ids; nothing when the target was not found.
Merge(target, neighbors) ==
  IF target = "found"
  THEN <<DirectRecord>> \o SelectSeq(neighbors, LAMBDA b : b.pand_id # DirectRecord.pand_id)
  ELSE <<>>

FetchFrame ==
  UNCHANGED <<app, neighborhood3DRequestId, reqs, viewer, obs, last, card, cardView, search>>

FStart ==
  /\ fetch.phase = "idle"
  /\ \E overall \in OverallTimeouts, perPage \in PerPageTimeouts :
       fetch' = StartedFetch(overall, perPage, MaxPages)
  /\ FetchFrame

\* Time passes while the pagination loop runs; a running request does not
\* outlive its time box.
FTick ==
  /\ fetch.phase = "running"
  /\ fetch.loop # "done"
  /\ fetch.now < MaxClock
  /\ \A r \in fetch.inflight : fetch.now < r.issued + r.timeout
  /\ fetch' = [fetch EXCEPT !.now = @ + 1]
  /\ FetchFrame

FTargetFound ==
  /\ fetch.phase = "running"
  /\ fetch.target = "pending"
  /\ fetch' = [fetch EXCEPT !.target = "found"]
  /\ FetchFrame

FTargetMissing ==
  /\ fetch.phase = "running"
  /\ fetch.target = "pending"
  /\ fetch' = [fetch EXCEPT !.target = "missing"]
  /\ FetchFrame

FNextPage ==
  /\ fetch.phase = "running"
  /\ fetch.loop = "head"
  /\ fetch' = NextPage(fetch)
  /\ FetchFrame

FPageSucceeds ==
  /\ fetch.phase = "running"
  /\ \E r \in fetch.inflight, content \in PageContents, hasNext \in BOOLEAN :
       fetch' = PageSucceeded(fetch, r, content, hasNext)
  /\ FetchFrame

FPageFails ==
  /\ fetch.phase = "running"
  /\ \E r \in fetch.inflight : fetch' = PageFailed(fetch, r)
  /\ FetchFrame

\* Both tasks have settled: the response is built.
FRespond ==
  /\ fetch.phase = "running"
  /\ fetch.loop = "done"
  /\ fetch.target # "pending"
  /\ fetch' = [fetch EXCEPT !.phase = "settled",
                            !.response = Some([buildings |-> Merge(fetch.target, fetch.buildings),
                                               error |-> FALSE])]
  /\ FetchFrame

FetchNext ==
  \/ FStart \/ FTick \/ FTargetFound \/ FTargetMissing
  \/ FNextPage \/ FPageSucceeds \/ FPageFails \/ FRespond

FetchSpec == Init /\ [][FetchNext]_vars

(***************************************************************************)
(* TimeoutSpec: one getNeighborhood3D call against the backend run with the *)
(* configured budgets.  The caller aborts its request when its timer fires  *)
(* before the response has arrived.                                         *)
(***************************************************************************)
MAX_PAGES == 1
BBOX_TIMEOUT == 20
PER_PAGE_TIMEOUT == 20

\* The abort delay getNeighborhood3D had before it was raised.
getNeighborhood3DAbortMsBefore == 15000

\* The delay of the abort timer of getNeighborhood3D, in milliseconds.
getNeighborhood3DAbortMs == 25000

\* The abort delay in ticks.
AbortTicks == (getNeighborhood3DAbortMs * TicksPerSecond) \div 1000

TStart ==
  /\ fetch.phase = "idle"
  /\ fetch' = StartedFetch(BBOX_TIMEOUT * TicksPerSecond,
                           PER_PAGE_TIMEOUT * TicksPerSecond, MAX_PAGES)
  /\ FetchFrame

\* Time passes until the response has arrived or the abort timer is due; the
\* head of the pagination loop takes no time.
TTick ==
  /\ fetch.phase = "running"
  /\ fetch.loop # "head"
  /\ fetch.now < AbortTicks
  /\ \A r \in fetch.inflight : fetch.now < r.issued + r.timeout
  /\ fetch' = [fetch EXCEPT !.now = @ + 1]
  /\ FetchFrame

\* setTimeout(() => controller.abort(), ...): the timer fires while the call
\* is still waiting for the response.
TAbort ==
  /\ fetch.phase = "running"
  /\ fetch.now >= AbortTicks
  /\ fetch' = [fetch EXCEPT !.phase = "aborted"]
  /\ FetchFrame

TimeoutNext ==
  \/ TStart \/ TTick \/ TAbort \/ FTargetFound \/ FTargetMissing
  \/ FNextPage \/ FPageSucceeds \/ FPageFails \/ FRespond

TimeoutSpec == Init /\ [][TimeoutNext]_vars

(***************************************************************************)
(* SearchSpec: the AddressSearch component.  Time advances in steps of     *)
(* 100 ms; a timeout that is due runs before more time passes.  The        *)
(* observer keeps for how long the input has held its value, the query of  *)
(* the suggestAddresses call made by the last step, and the number of      *)
(* calls made since the value last changed.                                *)
(***************************************************************************)
DEBOUNCE_MS == 300
MIN_QUERY_LENGTH == 2
DebounceTicks == DEBOUNCE_MS \div 100
MaxSuggestCalls == 2

TypedValues == {"", "a", "am", "ams"}
SuggestionAmstel == [id |-> "s1", display_name |-> "Amstel 1, Amsterdam"]
SuggestData == { <<>>, <<SuggestionAmstel>> }

handleInputChange(s, value) ==
  LET s1 == [s EXCEPT !.query = value, !.debounce = None]
  IN IF Len(value) < MIN_QUERY_LENGTH
     THEN [s1 EXCEPT !.suggestions = <<>>, !.isOpen = FALSE, !.error = FALSE]
     ELSE [s1 EXCEPT !.debounce = Some([value |-> value, remaining |-> DebounceTicks])]

\* fetchSuggestions up to its await: the request in flight is aborted and
\* suggestAddresses(q, 7, signal) is called.
fetchSuggestions(s, q) == [s EXCEPT !.inflight = Some(q)]

\* fetchSuggestions after its await.
suggestResolved(s, data) ==
  [s EXCEPT !.suggestions = data, !.isOpen = Len(data) > 0, !.error = FALSE,
            !.inflight = None]
suggestRejected(s) ==
  [s EXCEPT !.error = TRUE, !.suggestions = <<>>, !.isOpen = FALSE, !.inflight = None]

handleSelect(s, suggestion) ==
  [s EXCEPT !.query = suggestion.display_name, !.isOpen = FALSE, !.suggestions = <<>>]

\* The observer when the input's value changes, and when it does not.
ValueChanged(o) == [o EXCEPT !.suggestCalled = None, !.heldFor = 0, !.callsForValue = 0]
ValueKept(o) == [o EXCEPT !.suggestCalled = None]

SearchFrame ==
  UNCHANGED <<app, neighborhood3DRequestId, reqs, viewer, card, cardView, fetch>>

\* The user edits the text: onChange with the new value.
SeType ==
  /\ \E value \in TypedValues :
       /\ value # search.query
       /\ search' = handleInputChange(search, value)
  /\ obs' = ValueChanged(obs)
  /\ last' = [kind |-> "type", req |-> 0]
  /\ SearchFrame

\* 100 ms pass.
SeTick ==
  /\ search.debounce # None => search.debounce[1].remaining > 0
  /\ search' = IF search.debounce = None THEN search
               ELSE [search EXCEPT !.debounce[1].remaining = @ - 1]
  /\ obs' = [ValueKept(obs) EXCEPT
               !.heldFor = IF @ < DebounceTicks THEN @ + 1 ELSE @]
  /\ last' = [kind |-> "tick", req |-> 0]
  /\ SearchFrame

\* The debounce timeout runs: () => fetchSuggestions(value).
SeDebounceFires ==
  /\ search.debounce # None
  /\ search.debounce[1].remaining = 0
  /\ obs.callsForValue < MaxSuggestCalls
  /\ search' = [fetchSuggestions(search, search.debounce[1].value) EXCEPT
                  !.debounce = None]
  /\ obs' = [obs EXCEPT !.suggestCalled = Some(search.debounce[1].value),
                        !.callsForValue = @ + 1]
  /\ last' = [kind |-> "debounce", req |-> 0]
  /\ SearchFrame

SeSuggestResolves ==
  /\ search.inflight # None
  /\ \E data \in SuggestData : search' = suggestResolved(search, data)
  /\ obs' = ValueKept(obs)
  /\ last' = [kind |-> "suggestResolved", req |-> 0]
  /\ SearchFrame

SeSuggestRejects ==
  /\ search.inflight # None
  /\ search' = suggestRejected(search)
  /\ obs' = ValueKept(obs)
  /\ last' = [kind |-> "suggestRejected", req |-> 0]
  /\ SearchFrame

\* The user picks an item of the open dropdown (mouse, or Enter on the
\* active item).
SeSelect ==
  /\ search.isOpen
  /\ \E i \in 1..Len(search.suggestions) :
       /\ search' = handleSelect(search, search.suggestions[i])
       /\ obs' = IF search.suggestions[i].display_name = search.query
                 THEN ValueKept(obs) ELSE ValueChanged(obs)
  /\ last' = [kind |-> "pick", req |-> 0]
  /\ SearchFrame

SearchInit ==
  /\ HostIdle
  /\ CardIdle
  /\ FetchIdle
  /\ SearchIdle
  /\ viewer = NoViewer
  /\ obs = InitialObs
  /\ last = [kind |-> "init", req |-> 0]

SearchNext ==
  \/ SeType
  \/ SeTick
  \/ SeDebounceFires
  \/ SeSuggestResolves
  \/ SeSuggestRejects
  \/ SeSelect

SearchSpec == SearchInit /\ [][SearchNext]_vars

(***************************************************************************)
(* Properties.                                                             *)
(***************************************************************************)
SettledKinds ==
  {"lookupResolved", "lookupRejected", "factsResolved", "factsRejected",
   "riskResolved", "riskRejected", "n3dResolved", "n3dRejected"}

\* C1: at all times neighborhood3D is null or the response obtained for the
\* most recent selection, and the building set handed to the viewer is that
\* response's; a fetch of an earlier selection that settles later never
\* shows.
C1_Neighborhood3DIsCurrent ==
  /\ app.neighborhood3D # None =>
       app.neighborhood3D[1].req = neighborhood3DRequestId
  /\ viewer.mounted =>
       /\ app.neighborhood3D # None
       /\ viewer.buildings = app.neighborhood3D[1].buildings
       /\ viewer.targetPandId = app.neighborhood3D[1].target_pand_id
\* A's 3D fetch resolves after B was selected and B's response is in place.
C1_Witness ==
  /\ last.kind = "n3dResolved"
  /\ last.req < neighborhood3DRequestId
  /\ app.neighborhood3D # None
  /\ viewer.mounted

\* The App state cells C2 lists.
GuardedCells(a) ==
  <<a.address, a.buildingResponse, a.loading, a.error, a.riskCards, a.riskLoading,
    a.riskError, a.neighborhood3D, a.neighborhood3DLoading, a.sunlightUnavailable>>

\* C2 (as claimed): a completion of lookupAddress, getBuildingFacts,
\* getRiskCards or getNeighborhood3D whose captured request number is no
\* longer the current one changes none of the App state cells.
C2_StaleCompletionChangesNothing ==
  [][ (last' # last /\ last'.kind \in SettledKinds
       /\ last'.req # neighborhood3DRequestId')
      => GuardedCells(app') = GuardedCells(app) ]_vars

\* C3: after a capture cycle the camera position, the light position and the
\* light intensity equal the values they had immediately before the cycle,
\* whatever the sun altitudes at the three reference times.
C3_CaptureRestoresScene ==
  \A i \in 1..Len(viewer.outSnapshots) :
    LET before == viewer.outSnapshots[i].before
    IN /\ viewer.cameraPos = before.cameraPos
       /\ viewer.sunPos = before.sunPos
       /\ viewer.sunIntensity = before.sunIntensity
\* A cycle whose three renders all had the sun at or below the horizon, run
\* while the interactive light was on.
C3_Witness ==
  /\ viewer.outSnapshots # <<>>
  /\ \A k \in 1..3 : viewer.outSnapshots[1].snapshots[k].dataUrl.sunIntensity = 0
  /\ viewer.outSnapshots[1].before.sunIntensity = SUN_ON
  /\ viewer.cameraPos # SNAPSHOT_CAMERA

\* C4: the level the card shows is high for winter < 2, medium for
\* 2 <= winter <= 4 and low for winter > 4, and every result with the same
\* winter value gets the same level.
C4_RiskFromWinterOnly ==
  (~card.loading /\ ~card.unavailable /\ card.sunlight # None) =>
    LET w == card.sunlight[1].winter
    IN /\ w < 2 => cardView = "high"
       /\ (2 <= w /\ w <= 4) => cardView = "medium"
       /\ w > 4 => cardView = "low"
       /\ \A r \in CardResults :
            r.winter = w =>
              SunlightRiskCard([sunlight |-> Some(r), loading |-> FALSE,
                                unavailable |-> FALSE]) = cardView
\* The card shows medium at the boundary winter = 2 with a high annual average.
C4_Witness ==
  /\ cardView = "medium"
  /\ card.sunlight # None
  /\ card.sunlight[1].winter = 2
  /\ card.sunlight[1].annualAverage = 10 * MaxHours

IntensityFor(altitude) == IF altitude <= 0 THEN 0 ELSE SUN_ON

\* C5: the light intensity is only ever 0 or 0.8; the interactive sun update
\* leaves it at 0 for an altitude <= 0 and at 0.8 for an altitude > 0, and so
\* does each of the three renders of a capture cycle.
C5_IntensityFollowsAltitude ==
  /\ viewer.sunIntensity \in {0, SUN_ON}
  /\ viewer.mounted =>
       viewer.sunIntensity =
         IntensityFor(SunCalcGetPosition(getDateFromPreset(viewer.datePreset),
                                         viewer.hour, viewer.center).altitude)
  /\ \A i \in 1..Len(viewer.outSnapshots) :
       \A k \in 1..3 :
         LET shot == viewer.outSnapshots[i].snapshots[k]
         IN shot.dataUrl.sunIntensity =
              IntensityFor(SunCalcGetPosition("Dec21", shot.hour, viewer.center).altitude)
\* The sun exactly on the horizon in the interactive view, and a capture
\* cycle with a lit render and an unlit one.
C5_Witness ==
  /\ viewer.mounted
  /\ SunCalcGetPosition(getDateFromPreset(viewer.datePreset),
                        viewer.hour, viewer.center).altitude = 0
  /\ viewer.sunIntensity = 0
  /\ viewer.outSnapshots # <<>>

\* C6: between two consecutive arrivals of a (target, building set) pair at
\* the viewer, onSunlightAnalysis is invoked at most once, whatever hour,
\* date-preset, camera-preset or center changes re-render it in between.
C6_AnalyzerAtMostOncePerArrival == obs.sunlightCalls <= 1
\* The Analyzer has run and its timer was armed again by a later re-render.
C6_Witness ==
  /\ obs.sunlightCalls = 1
  /\ viewer.sunlightComputed
  /\ viewer.timer # None
  /\ viewer.hour # 12

CannotAnalyse(n3d) ==
  \/ n3d.target_pand_id = NoPand
  \/ Len(n3d.buildings) = 0
  \/ FindBuilding(n3d.buildings, n3d.target_pand_id) = None

\* C9 (as claimed): if the current selection's 3D response has no target id,
\* no buildings or not the target building, sunlightUnavailable is true, the
\* sunlight card is not loading, and no result is delivered.
C9_UnavailableWhenCannotAnalyse ==
  (app.neighborhood3D # None /\ CannotAnalyse(app.neighborhood3D[1])) =>
    /\ app.sunlightUnavailable
    /\ ~SunlightCardProps(app).loading
    /\ app.sunlight = None

\* C10: a rejection of getNeighborhood3D for the current selection leaves
\* error as it was (null stays null), ends the 3D loading state, leaves
\* neighborhood3D null and no viewer, sets sunlightUnavailable, and leaves
\* buildingResponse unchanged.
C10_Rejected3DIsDegradedNotAnError ==
  [][ (last' # last /\ last'.kind = "n3dRejected"
       /\ last'.req = neighborhood3DRequestId')
      => /\ app'.error = app.error
         /\ ~app'.neighborhood3DLoading
         /\ app'.neighborhood3D = None
         /\ ~viewer'.mounted
         /\ app'.sunlightUnavailable
         /\ app'.buildingResponse = app.buildingResponse
         /\ app'.buildingResponse # None ]_vars
\* The current selection's 3D fetch has just been rejected, no error shown.
C10_Witness ==
  /\ last.kind = "n3dRejected"
  /\ last.req = neighborhood3DRequestId
  /\ app.error = None
  /\ app.sunlightUnavailable
  /\ app.buildingResponse # None

\* The whole hours the loop samples in a month: sunrise hour to sunset hour.
SampledHours(month, center) ==
  LET times == SunCalcGetTimes(month, center)
  IN IF times = None THEN {}
     ELSE getHours(times[1].sunrise)..getHours(times[1].sunset)

\* The ray of a sample meets the volume of a building of the supplied set
\* other than the target.
ObstructedByNeighbor(closure, month, h) ==
  LET buildings == closure.buildings
      target == FindBuilding(buildings, closure.targetPandId)[1]
      minGround == SetMin({buildings[i].ground_height : i \in 1..Len(buildings)})
      sunPos == SunCalcGetPositionAtHalfPast(month, h, closure.center)
  IN \E i \in 1..Len(buildings) :
       /\ buildings[i].pand_id # closure.targetPandId
       /\ Len(buildings[i].footprint) >= 3
       /\ RayHits(RoofCenter(buildings, target), sunPos, MeshVolume(buildings[i], minGround))

DaylightSamples(closure, month) ==
  {h \in SampledHours(month, closure.center) :
     SunCalcGetPositionAtHalfPast(month, h, closure.center).altitude > 0}

\* C11 (as claimed): every sampled hour with the sun above the horizon is
\* counted sunlit exactly when its ray meets no building of the supplied set
\* other than the target, and samples with altitude <= 0 are not counted; so
\* each monthly count is the number of daylight samples no neighbor obstructs.
C11_ObstructedIffNeighborHit ==
  obs.analysis # None =>
    LET a == obs.analysis[1]
    IN \A m \in 0..11 :
         a.monthlyHours[m + 1] =
           Cardinality({h \in DaylightSamples(a.closure, m) :
                          ~ObstructedByNeighbor(a.closure, m, h)})

NoObstruction(closure) ==
  \A m \in 0..11 : \A h \in DaylightSamples(closure, m) :
    ~ObstructedByNeighbor(closure, m, h)

SunriseHour(closure, m) == getHours(SunCalcGetTimes(m, closure.center)[1].sunrise)
SunsetHour(closure, m) == getHours(SunCalcGetTimes(m, closure.center)[1].sunset)

\* C12 (as claimed): for a target no building obstructs, the count of every
\* month is sunset_hour - sunrise_hour + 1.
C12_CountIsSunsetMinusSunrisePlusOne ==
  (obs.analysis # None /\ NoObstruction(obs.analysis[1].closure)) =>
    LET a == obs.analysis[1]
    IN \A m \in 0..11 :
         SunCalcGetTimes(m, a.closure.center) # None =>
           a.monthlyHours[m + 1] = SunsetHour(a.closure, m) - SunriseHour(a.closure, m) + 1

\* C12 (amended): for a target no building obstructs, the count of a month is
\* the number of whole hours h from the sunrise hour to the sunset hour whose
\* sample at h:30 has the sun above the horizon: at most
\* sunset_hour - sunrise_hour + 1, equal to it exactly when the sun is up at
\* half past the sunrise hour and at half past the sunset hour, and 0 when
\* the sun does not rise.
C12_CountIsDaylightSamples ==
  (obs.analysis # None /\ NoObstruction(obs.analysis[1].closure)) =>
    LET a == obs.analysis[1]
        c == a.closure.center
    IN \A m \in 0..11 :
         /\ a.monthlyHours[m + 1] = Cardinality(DaylightSamples(a.closure, m))
         /\ SunCalcGetTimes(m, c) = None => a.monthlyHours[m + 1] = 0
         /\ SunCalcGetTimes(m, c) # None =>
              LET sr == SunriseHour(a.closure, m)
                  ss == SunsetHour(a.closure, m)
              IN /\ a.monthlyHours[m + 1] <= ss - sr + 1
                 /\ (a.monthlyHours[m + 1] = ss - sr + 1) <=>
                      /\ SunCalcGetPositionAtHalfPast(m, sr, c).altitude > 0
                      /\ SunCalcGetPositionAtHalfPast(m, ss, c).altitude > 0
\* An unobstructed target analysed where January attains the full count,
\* December falls short of it, and (at c2) the December sun does not rise.
C12_Witness ==
  /\ obs.analysis # None
  /\ NoObstruction(obs.analysis[1].closure)
  /\ Len(obs.analysis[1].closure.buildings) > 1
  /\ obs.analysis[1].closure.center = "c1"
  /\ obs.analysis[1].monthlyHours[1] = 10
  /\ obs.analysis[1].monthlyHours[12] = 8

\* C13: winter, equinox and summer are the counts of December, March and
\* June; annualAverage is the mean of the 12 counts rounded to one decimal
\* (the nearest tenth, halves upward) and lies between the smallest and the
\* largest count.
C13_ResultAggregatesMonthlyCounts ==
  obs.analysis # None =>
    LET a == obs.analysis[1]
        total == SumSeq(a.monthlyHours)
        avg == a.result.annualAverage
    IN /\ a.result.winter = a.monthlyHours[12]
       /\ a.result.equinox = a.monthlyHours[3]
       /\ a.result.summer = a.monthlyHours[6]
       /\ 12 * avg - 6 <= 10 * total
       /\ 10 * total < 12 * avg + 6
       /\ 10 * SetMin(Range(a.monthlyHours)) <= avg
       /\ avg <= 10 * SetMax(Range(a.monthlyHours))
\* A result whose mean is not a whole number of tenths and whose three
\* seasonal counts differ.
C13_Witness ==
  /\ obs.analysis # None
  /\ (10 * SumSeq(obs.analysis[1].monthlyHours)) % 12 # 0
  /\ obs.analysis[1].result.winter < obs.analysis[1].result.equinox
  /\ obs.analysis[1].result.equinox < obs.analysis[1].result.summer
  /\ viewer.outSunlight # <<>>

\* The buildings of a list of pages, in page order.
RECURSIVE Concatenation(_)
Concatenation(pages) ==
  IF pages = <<>> THEN <<>> ELSE Head(pages) \o Concatenation(Tail(pages))

\* C14: when pages 1..k-1 completed and page k fails, or the budget is
\* exhausted before page k, the neighbor list the paginated fetch returns is
\* the concatenation in page order of the buildings of pages 1..k-1; it is
\* non-empty if a completed page had results, and the response carries no
\* error.
C14_PartialPagesArePreserved ==
  (fetch.phase # "idle" /\ fetch.loop = "done" /\ fetch.stop \in {"failed", "budget"}) =>
    /\ Len(fetch.completed) = fetch.page - 1
    /\ fetch.buildings = Concatenation(fetch.completed)
    /\ (\E i \in 1..Len(fetch.completed) : fetch.completed[i] # <<>>) => fetch.buildings # <<>>
    /\ fetch.response # None => ~fetch.response[1].error
\* Page 3 failed after pages 1 and 2 had brought buildings.
C14_Witness ==
  /\ fetch.phase # "idle"
  /\ fetch.stop = "failed"
  /\ Len(fetch.completed) = 2
  /\ fetch.completed[1] # <<>>
  /\ Len(fetch.requests) = 3
  /\ Len(fetch.buildings) >= 2

\* C15: page requests are issued strictly one after another; none is issued
\* with less than a second of the budget remaining; each is time-boxed to
\* min(per_page_timeout, remaining); and no page request is running once the
\* overall timeout has elapsed.
C15_PagesSequentialWithinBudget ==
  fetch.phase # "idle" =>
    /\ Cardinality(fetch.inflight) <= 1
    /\ \A r \in fetch.inflight : r = fetch.requests[Len(fetch.requests)]
    /\ \A i \in 1..Len(fetch.requests) :
         LET r == fetch.requests[i]
         IN /\ r.page = i
            /\ r.remaining = fetch.overall_timeout - r.issued
            /\ r.remaining >= TicksPerSecond
            /\ r.timeout = Min(fetch.per_page_timeout, r.remaining)
            /\ i > 1 => r.issued >= fetch.requests[i - 1].issued
    /\ fetch.inflight # {} => fetch.now <= fetch.overall_timeout
\* A second page request, boxed by what remained of the budget and not by the
\* per-page timeout, still running when the overall timeout is reached.
C15_Witness ==
  /\ fetch.phase # "idle"
  /\ Len(fetch.requests) = 2
  /\ fetch.requests[2].timeout < fetch.per_page_timeout
  /\ fetch.inflight = {fetch.requests[2]}
  /\ fetch.now = fetch.overall_timeout

\* The number of records of the list that carry the id.
CountId(buildings, id) ==
  Cardinality({i \in 1..Len(buildings) : buildings[i].pand_id = id})

\* C16: whatever the neighbor path did, if the direct lookup found the
\* target the merged list holds the target exactly once and that record is
\* the direct one; when no page completed the list is exactly [target]; no
\* error is raised.
C16_TargetPresentOnceDirectWins ==
  (fetch.phase = "settled" /\ fetch.target = "found") =>
    LET buildings == fetch.response[1].buildings
    IN /\ CountId(buildings, DirectRecord.pand_id) = 1
       /\ \E i \in 1..Len(buildings) : buildings[i] = DirectRecord
       /\ \A b \in Range(Concatenation(fetch.completed)) :
            b.pand_id # DirectRecord.pand_id => b \in Range(buildings)
       /\ fetch.completed = <<>> => buildings = <<DirectRecord>>
       /\ ~fetch.response[1].error
\* The target was found and the area query returned a record of the same id.
C16_Witness ==
  /\ fetch.phase = "settled"
  /\ fetch.target = "found"
  /\ AreaRecord("T1") \in Range(Concatenation(fetch.completed))
  /\ Len(fetch.response[1].buildings) = 3

\* C17 (as claimed): caller-facing abort timeout > backend overall fetch
\* budget > per-page fetch timeout, strictly.
C17_StrictTimeoutChain ==
  fetch.phase # "idle" =>
    /\ getNeighborhood3DAbortMs * TicksPerSecond > fetch.overall_timeout * 1000
    /\ fetch.overall_timeout > fetch.per_page_timeout

\* C17 (amended): the abort delay of getNeighborhood3D exceeds BBOX_TIMEOUT,
\* and BBOX_TIMEOUT is at least PER_PAGE_TIMEOUT (the two are equal); so a
\* page request may use the whole overall budget, and the caller's abort
\* never fires while the paginated fetch is still running.
C17_TimeoutChain ==
  fetch.phase # "idle" =>
       /\ getNeighborhood3DAbortMs * TicksPerSecond > fetch.overall_timeout * 1000
       /\ fetch.overall_timeout >= fetch.per_page_timeout
       /\ \A i \in 1..Len(fetch.requests) :
            fetch.requests[i].timeout = fetch.requests[i].remaining
       /\ fetch.phase = "aborted" => (fetch.loop = "done" /\ fetch.inflight = {})
\* The caller aborted a call whose only page request, issued at once, had
\* used the whole overall budget.
C17_Witness ==
  /\ fetch.phase = "aborted"
  /\ fetch.stop = "failed"
  /\ Len(fetch.requests) = 1
  /\ fetch.requests[1].timeout = BBOX_TIMEOUT * TicksPerSecond
  /\ fetch.target = "pending"

\* C18 (as claimed): over any sequence of arrivals every volume created and
\* not yet disposed is a member of the current volume set: the volumes not
\* disposed are as many as the scene's building volumes.
C18_NoLeakedVolume ==
  obs.undisposed = Len(viewer.buildingMeshes)

\* The ids of the buildings of a set that have a footprint of 3 points or more.
VolumeIds(buildings) ==
  LET solid == SelectSeq(buildings, LAMBDA b : Len(b.footprint) >= 3)
  IN [i \in 1..Len(solid) |-> solid[i].pand_id]

\* C19 (as claimed): after every arrival the scene holds exactly one volume
\* per building of the latest set with a footprint of at least 3 points, the
\* target and every neighbor, and none of an earlier set.
C19_OneVolumePerBuildingOfLatestSet ==
  (viewer.mounted /\ last.kind \in {"mount", "arrival"}) =>
    viewer.buildingMeshes = VolumeIds(viewer.buildings)

\* The orbit target the framing of a building gives: the center of its plan
\* and half its height above its base.
PlanCenter(b) ==
  LET fp == b.footprint
  IN <<SumSeq([i \in 1..Len(fp) |-> fp[i][1]]) \div Len(fp),
       b.building_height \div 2,
       SumSeq([i \in 1..Len(fp) |-> fp[i][2]]) \div Len(fp)>>

C22_NoResultOfPreviousAddress ==
  /\ (app.sunlight # None \/ app.shadowSnapshots # None \/ viewer.timer # None) =>
       /\ viewer.mounted
       /\ app.neighborhood3D # None
       /\ app.neighborhood3D[1].req = neighborhood3DRequestId
       /\ viewer.buildings = app.neighborhood3D[1].buildings
       /\ viewer.targetPandId = app.neighborhood3D[1].target_pand_id
  /\ viewer.timer # None =>
       /\ viewer.timer[1].buildings = app.neighborhood3D[1].buildings
       /\ viewer.timer[1].targetPandId = app.neighborhood3D[1].target_pand_id
  /\ app.sunlight # None => obs.analysed = Some(Pair(viewer))
  /\ last.kind = "select" =>
       /\ app.sunlight = None
       /\ app.shadowSnapshots = None
       /\ viewer.timer = None
\* A second address was selected while the first viewer's timer was pending.
C22_Witness ==
  /\ last.kind = "select"
  /\ last.timerPending
  /\ last.req = 2
  /\ app.sunlight = None
  /\ ~viewer.mounted


\* The light a frame shows under the controls it was drawn with.
InteractiveAltitude(fr) ==
  SunCalcGetPosition(getDateFromPreset(fr.datePreset), fr.hour, fr.center).altitude

\* C23: every frame the per-frame tick draws shows the interactive viewer's
\* camera and sun light: never the Capturer's temporary top-down pose, and a
\* light that is on exactly when the sun of the selected date preset, hour and
\* center is above the horizon, never the light of a reference time.
C23_TickSeesInteractiveState ==
  obs.frame # None =>
    LET fr == obs.frame[1]
    IN /\ fr.cameraPos # SNAPSHOT_CAMERA
       /\ fr.sunIntensity = IntensityFor(InteractiveAltitude(fr))
       /\ fr.sunIntensity = SUN_ON =>
            fr.sunPos = SunVector(SunCalcGetPosition(getDateFromPreset(fr.datePreset),
                                                     fr.hour, fr.center))
\* A tick right after a capture cycle whose last render (17:00 on the winter
\* solstice) was unlit, drawing a lit frame.
C23_Witness ==
  /\ last.kind = "tick"
  /\ obs.frame # None
  /\ obs.frame[1].afterCapture
  /\ obs.frame[1].sunIntensity = SUN_ON
  /\ SunCalcGetPosition("Dec21", 17, obs.frame[1].center).altitude <= 0

\* Every request started by every selection so far has settled.
AllRequestsSettled ==
  \A k \in 1..Len(reqs) :
    /\ reqs[k].main = "done"
    /\ reqs[k].risk # "pending"
    /\ reqs[k].n3d # "pending"

\* C24: once all requests issued by the selections made so far have settled,
\* whatever their outcomes and completion order, none of loading, riskLoading
\* and neighborhood3DLoading is still true.
C24_NoLoadingFlagStuck ==
  AllRequestsSettled =>
    /\ ~app.loading
    /\ ~app.riskLoading
    /\ ~app.neighborhood3DLoading
\* C25: every capture cycle hands exactly three snapshots to onShadowSnapshots
\* in one call, labelled morning, noon and evening for 09:00, 12:00 and 17:00
\* in that order, each rendered with the camera at the fixed top-down position
\* whatever the camera position was before the cycle, also when the sun is
\* below the horizon at a reference time.
C25_ThreeTopDownSnapshots ==
  /\ Len(viewer.outSnapshots) <= 1
  /\ \A i \in 1..Len(viewer.outSnapshots) :
       LET shots == viewer.outSnapshots[i].snapshots
       IN /\ Len(shots) = 3
          /\ <<shots[1].label, shots[2].label, shots[3].label>> =
               <<"morning", "noon", "evening">>
          /\ <<shots[1].hour, shots[2].hour, shots[3].hour>> = <<9, 12, 17>>
          /\ \A k \in 1..3 : shots[k].dataUrl.cameraPos = <<0, 2000, 1>>
\* A cycle started from a camera-button pose, with an unlit render.
C25_Witness ==
  /\ viewer.outSnapshots # <<>>
  /\ viewer.outSnapshots[1].before.cameraPos =
       <<viewer.targetCenter[1] + CAMERA_PRESETS["street"][1],
         viewer.targetCenter[2] + CAMERA_PRESETS["street"][2],
         viewer.targetCenter[3] + CAMERA_PRESETS["street"][3]>>
  /\ \E k \in 1..3 : viewer.outSnapshots[1].snapshots[k].dataUrl.sunIntensity = 0
\* C26: suggestAddresses is called with query q only if the input's value is
\* q, has at least 2 characters and has been q for the preceding 300 ms; a
\* change of the value inside the window cancels the pending call, and one
\* stable value causes at most one call.
C26_CallOnlyForStableValue ==
  /\ obs.suggestCalled # None =>
       /\ obs.suggestCalled[1] = search.query
       /\ Len(obs.suggestCalled[1]) >= 2
       /\ obs.heldFor * 100 >= 300
  /\ search.debounce # None => search.debounce[1].value = search.query
  /\ obs.callsForValue <= 1
\* The cells C27 lists, as the reset leaves them.
ListedCellsCleared ==
  /\ app.buildingResponse = None
  /\ app.neighborhood3D = None
  /\ app.riskCards = None
  /\ app.sunlight = None
  /\ app.shadowSnapshots = None
  /\ app.error = None
  /\ ~app.riskError
  /\ ~app.sunlightUnavailable
  /\ app.loading

\* {address?.latitude && address?.longitude && <BuildingFootprintMap/>}: the
\* map of a resolved address that came with coordinates is on screen.
FootprintMapShown == app.address # None /\ HasCoords(app.address[1].kind)

\* C27 (as claimed): immediately after every address selection the listed
\* cells are cleared (results and error null, riskError and
\* sunlightUnavailable false, loading true) and no data of the previous
\* address remains displayed.
C27_NothingOfPreviousAddressShown ==
  last.kind = "select" =>
    /\ ListedCellsCleared
    /\ ~FootprintMapShown

\* C27 (amended): immediately after every address selection the listed cells
\* are cleared and the viewer is gone; the resolved address of the previous
\* selection is the only per-address state that stays.
C27_ListedCellsCleared ==
  last.kind = "select" =>
    /\ ListedCellsCleared
    /\ ~viewer.mounted
\* A second selection made while facts and a sunlight result of the first
\* were on screen.
C27_Witness ==
  /\ last.kind = "select"
  /\ last.hadResults
  /\ FootprintMapShown
  /\ app.address[1].req < neighborhood3DRequestId
\* C28: whenever the viewer is idle, after any hour, date-preset and center
\* changes, building-set arrivals and capture cycles, the sun light's
\* intensity is 0.8 if the sun altitude for the selected date preset, hour
\* and center is above 0 and 0 otherwise.
C28_LightFollowsControls ==
  viewer.mounted =>
    LET altitude == SunCalcGetPosition(getDateFromPreset(viewer.datePreset),
                                       viewer.hour, viewer.center).altitude
    IN IF altitude > 0 THEN viewer.sunIntensity = 8 ELSE viewer.sunIntensity = 0
\* A capture cycle whose 17:00 render was unlit, run on an arrival after the
\* date preset was moved off its initial value to one that is lit at the
\* selected hour.
C28_Witness ==
  /\ viewer.mounted
  /\ viewer.outSnapshots # <<>>
  /\ viewer.datePreset # NoViewer.datePreset
  /\ viewer.outSnapshots[1].snapshots[3].dataUrl.sunIntensity = 0
  /\ viewer.sunIntensity = SUN_ON
\* The 3D response held for the current selection has buildings and a target
\* id: what App's canCompute asks for.
CanSupportAnalysis ==
  /\ app.neighborhood3D # None
  /\ app.neighborhood3D[1].req = neighborhood3DRequestId
  /\ Len(app.neighborhood3D[1].buildings) > 0
  /\ app.neighborhood3D[1].target_pand_id # NoPand

\* C29: sunlightUnavailable is true only if the current selection has no 3D
\* response with buildings and a target id; sunlightUnavailable and a
\* sunlight result are never both held.
C29_UnavailableOnlyWithoutAnalysis ==
  app.sunlightUnavailable =>
    /\ ~CanSupportAnalysis
    /\ app.sunlight = None
\* C30: between steps a mounted viewer has exactly one pending frame request
\* and animId is its id; after teardown no frame request and no Analyzer
\* timer is pending, so no further tick runs, and no tick ever found the
\* scene state cleared.
C30_OnePendingFrameUntilTeardown ==
  /\ viewer.mounted =>
       viewer.frameRequests = {[id |-> viewer.animId, live |-> TRUE]}
  /\ ~viewer.mounted =>
       /\ viewer.frameRequests = {}
       /\ viewer.timer = None
  /\ ~obs.clearedDeref
\* A teardown after at least one tick, while the Analyzer timer was pending.
C30_Witness ==
  /\ last.kind = "unmount"
  /\ last.animId > 1
  /\ last.timerPending
  /\ ~viewer.mounted
====
